---- MODULE Spec2Model ----
(***************************************************************************)
(* NoiseScheduler with multi-scale grid-based noise adjustment             *)
(* (example_papers/grid_based_noise_adaptation/run_4.py) and the training, *)
(* evaluation and sampling loops of its driver script.                     *)
(*                                                                         *)
(* Floats are fixed-point integers: the float v is the integer v * FP,     *)
(* products and quotients are rounded to the nearest unit.                 *)
(***************************************************************************)
EXTENDS Integers, Sequences, FiniteSets, TLC

\* ------------------------------------------------------------------ bounds
FP == 10000                \* fixed-point unit: the float 1.0
MaxT == 2                  \* largest num_timesteps of a run
BatchSize == 2             \* elements of a training / evaluation / sampling batch
NumTrainSteps == 1         \* config.num_train_steps
MaxIndexGrid == 4          \* largest grid size of the index-mapping specification
MaxCoord == 10             \* coordinates of that specification: -MaxCoord/4 .. MaxCoord/4
MaxArg == 2                \* largest integer argument handed to the constructor

\* ------------------------------------------------------- float arithmetic
Min(a, b) == IF a < b THEN a ELSE b
Max(a, b) == IF a > b THEN a ELSE b
Abs(a) == IF a < 0 THEN -a ELSE a

\* n / d rounded to the nearest integer (d > 0)
RDiv(n, d) == IF 2 * (n % d) >= d THEN (n \div d) + 1 ELSE n \div d

\* a * b, a / b and sqrt(a) on fixed-point floats
FMul(a, b) == RDiv(a * b, FP)
FDiv(a, b) == IF b > 0 THEN RDiv(a * FP, b) ELSE -RDiv(a * FP, -b)
\* a * b / c (c > 0) without the underflow of an intermediate fixed-point product
FMulDiv(a, b, c) == RDiv(a * b, c)

\* floor(sqrt(n)) by Newton iteration from above
RECURSIVE Newton(_, _)
Newton(n, r) ==
    LET s == (r + n \div r) \div 2
    IN  IF s >= r THEN r ELSE Newton(n, s)
ISqrt(n) == IF n <= 0 THEN 0 ELSE Newton(n, n)
\* the nearest of floor(sqrt) and floor(sqrt) + 1
FSqrt(a) ==
    LET n == a * FP
        r == ISqrt(n)
    IN  IF n - r * r > (r + 1) * (r + 1) - n THEN r + 1 ELSE r

\* torch.clamp(v, lo, hi) = min(max(v, lo), hi)
Clamp(v, lo, hi) == Min(Max(v, lo), hi)

\* Tensor.long() of the float n / d (d > 0): truncation toward zero
ToLong(n, d) == IF n >= 0 THEN n \div d ELSE -((-n) \div d)

\* ------------------------------------------------------------ constructor
beta_start == FP \div 10000     \* 0.0001
beta_end == (2 * FP) \div 100    \* 0.02

\* torch.linspace(a, b, steps)[i]
linspace(a, b, steps, i) ==
    IF steps = 1 THEN a ELSE a + RDiv((b - a) * i, steps - 1)

\* self.betas for the two schedules the constructor knows
Betas(T, schedule) ==
    [i \in 0..(T - 1) |->
        IF schedule = "linear"
        THEN linspace(beta_start, beta_end, T, i)
        ELSE LET r == linspace(FSqrt(beta_start), FSqrt(beta_end), T, i)
             IN  FMul(r, r)]

RECURSIVE cumprod(_, _)
cumprod(a, i) == IF i = 0 THEN a[0] ELSE FMul(cumprod(a, i - 1), a[i])

\* A three-dimensional tensor is its shape, the value of the entries that were
\* never written (fill) and the entries that differ from it (at).
Tensor(shape, fill, at) ==
    [shape |-> shape, fill |-> fill,
     at |-> [c \in {d \in DOMAIN at : at[d] # fill} |-> at[c]]]

\* tensor[c]; an index outside the shape has no value (IndexError)
At(g, c) ==
    CASE \A k \in 1..3 : c[k] \in 0..(g.shape[k] - 1) ->
            IF c \in DOMAIN g.at THEN g.at[c] ELSE g.fill

Size(g) == g.shape[1] * g.shape[2] * g.shape[3]

\* the values the entries of the tensor have
Values(g) ==
    {g.at[c] : c \in DOMAIN g.at}
    \cup (IF Cardinality(DOMAIN g.at) < Size(g) THEN {g.fill} ELSE {})

\* Variant: the grids start at zero instead of one.
Ones_zeros(T, G) == Tensor(<<T, G, G>>, 0, <<>>)

\* torch.ones(T, G, G)
Ones(T, G) == Tensor(<<T, G, G>>, FP, <<>>)

\* The instance NoiseScheduler.__init__ builds for a configuration it accepts.
NewScheduler(T, schedule, cgs, fgs) ==
    LET b   == Betas(T, schedule)
        a   == [i \in 0..(T - 1) |-> FP - b[i]]
        acp == [i \in 0..(T - 1) |-> cumprod(a, i)]
        \* F.pad(alphas_cumprod[:-1], (1, 0), value=1.) has one entry even if T = 0
        acpp == [i \in 0..Max(T - 1, 0) |-> IF i = 0 THEN FP ELSE acp[i - 1]]
    IN  [num_timesteps |-> T,
         coarse_grid_size |-> cgs,
         fine_grid_size |-> fgs,
         betas |-> b,
         alphas |-> a,
         alphas_cumprod |-> acp,
         alphas_cumprod_prev |-> acpp,
         sqrt_alphas_cumprod |-> [i \in 0..(T - 1) |-> FSqrt(acp[i])],
         sqrt_one_minus_alphas_cumprod |-> [i \in 0..(T - 1) |-> FSqrt(FP - acp[i])],
         sqrt_inv_alphas_cumprod |-> [i \in 0..(T - 1) |-> FSqrt(FDiv(FP, acp[i]))],
         sqrt_inv_alphas_cumprod_minus_one |->
             [i \in 0..(T - 1) |-> FSqrt(FDiv(FP, acp[i]) - FP)],
         posterior_mean_coef1 |->
             [i \in 0..(T - 1) |-> FMulDiv(b[i], FSqrt(acpp[i]), FP - acp[i])],
         posterior_mean_coef2 |->
             [i \in 0..(T - 1) |-> FMulDiv(FP - acpp[i], FSqrt(a[i]), FP - acp[i])],
         coarse_noise_grid |-> Ones(T, cgs),
         fine_noise_grid |-> Ones(T, fgs)]

\* ---------------------------------------------------------------- methods
\* A batch is a sequence of points <<x1, x2>>; a (N,1) column of scalars that
\* is broadcast against it is a sequence of length N or 1.
Bc(s, i) == s[IF Len(s) = 1 THEN 1 ELSE i]

\* Variant: the upper clamp bound is G instead of G - 1.
grid_index_clampG(c, G) ==
    ToLong(Clamp((c + FP) * G, 0, G * 2 * FP), 2 * FP)

\* clamp((c + 1) / 2 * G, 0, G - 1).long(): the float (c + 1) / 2 * G is the
\* exact fraction (c + FP) * G / (2 * FP)
grid_index(c, G) ==
    ToLong(Clamp((c + FP) * G, 0, (G - 1) * 2 * FP), 2 * FP)

coarse_cell(self, ti, xi) ==
    <<ti, grid_index(xi[1], self.coarse_grid_size),
          grid_index(xi[2], self.coarse_grid_size)>>
fine_cell(self, ti, xi) ==
    <<ti, grid_index(xi[1], self.fine_grid_size),
          grid_index(xi[2], self.fine_grid_size)>>

\* Variant: the fine grid is indexed with the first element's timestep.
get_grid_noise_adjustment_t0(self, t, x) ==
    [val |-> [i \in 1..Len(x) |->
                FMul(At(self.coarse_noise_grid, coarse_cell(self, Bc(t, i), x[i])),
                     At(self.fine_noise_grid, fine_cell(self, t[1], x[i])))],
     reads |-> [i \in 1..Len(x) |->
                {<<"coarse_noise_grid", coarse_cell(self, Bc(t, i), x[i])>>,
                 <<"fine_noise_grid", fine_cell(self, t[1], x[i])>>}]]

\* Every method returns its value (val) and, per batch element, the table
\* entries the element's value was read from (reads).
get_grid_noise_adjustment(self, t, x) ==
    [val |-> [i \in 1..Len(x) |->
                FMul(At(self.coarse_noise_grid, coarse_cell(self, Bc(t, i), x[i])),
                     At(self.fine_noise_grid, fine_cell(self, Bc(t, i), x[i])))],
     reads |-> [i \in 1..Len(x) |->
                {<<"coarse_noise_grid", coarse_cell(self, Bc(t, i), x[i])>>,
                 <<"fine_noise_grid", fine_cell(self, Bc(t, i), x[i])>>}]]

reconstruct_x0(self, x_t, t, noise) ==
    LET s1 == [i \in 1..Len(t) |-> self.sqrt_inv_alphas_cumprod[t[i]]]
        s2 == [i \in 1..Len(t) |-> self.sqrt_inv_alphas_cumprod_minus_one[t[i]]]
    IN  [val |-> [i \in 1..Len(x_t) |->
                    [k \in 1..2 |-> FMul(Bc(s1, i), x_t[i][k])
                                    - FMul(Bc(s2, i), noise[i][k])]],
         reads |-> [i \in 1..Len(x_t) |->
                    {<<"sqrt_inv_alphas_cumprod", <<Bc(t, i)>>>>,
                     <<"sqrt_inv_alphas_cumprod_minus_one", <<Bc(t, i)>>>>}]]

q_posterior(self, x_0, x_t, t) ==
    LET s1 == [i \in 1..Len(t) |-> self.posterior_mean_coef1[t[i]]]
        s2 == [i \in 1..Len(t) |-> self.posterior_mean_coef2[t[i]]]
    IN  [val |-> [i \in 1..Len(x_t) |->
                    [k \in 1..2 |-> FMul(Bc(s1, i), x_0[i][k])
                                    + FMul(Bc(s2, i), x_t[i][k])]],
         reads |-> [i \in 1..Len(x_t) |->
                    {<<"posterior_mean_coef1", <<Bc(t, i)>>>>,
                     <<"posterior_mean_coef2", <<Bc(t, i)>>>>}]]

clip_min == 0              \* 1e-20, below the fixed-point unit

get_variance(self, t) ==
    IF t = 0
    THEN [val |-> 0, reads |-> {}]
    ELSE [val |-> Max(FMulDiv(self.betas[t], FP - self.alphas_cumprod_prev[t],
                              FP - self.alphas_cumprod[t]), clip_min),
          reads |-> {<<"betas", <<t>>>>, <<"alphas_cumprod_prev", <<t>>>>,
                     <<"alphas_cumprod", <<t>>>>}]

\* Variant: the noise branch is taken for t >= 0.
step_noise_at_0(self, model_output, timestep, sample, randn) ==
    LET t == timestep
        pred_original_sample == reconstruct_x0(self, sample, <<t>>, model_output)
        pred_prev_sample == q_posterior(self, pred_original_sample.val, sample, <<t>>)
        var == get_variance(self, t)
        variance == [i \in 1..Len(sample) |->
                      [k \in 1..2 |->
                         IF t >= 0 THEN FMul(FSqrt(var.val), randn[i][k]) ELSE 0]]
    IN  [val |-> [i \in 1..Len(sample) |->
                    [k \in 1..2 |-> pred_prev_sample.val[i][k] + variance[i][k]]],
         reads |-> [i \in 1..Len(sample) |->
                    pred_original_sample.reads[i] \cup pred_prev_sample.reads[i]
                    \cup (IF t >= 0 THEN var.reads ELSE {})],
         drew |-> t >= 0]

\* Variant: the terminal step returns the reconstructed x0 without q_posterior.
step_skip_posterior_at_0(self, model_output, timestep, sample, randn) ==
    LET t == timestep
        pred_original_sample == reconstruct_x0(self, sample, <<t>>, model_output)
        pred_prev_sample ==
            IF t = 0 THEN pred_original_sample
            ELSE q_posterior(self, pred_original_sample.val, sample, <<t>>)
        var == get_variance(self, t)
        variance == [i \in 1..Len(sample) |->
                      [k \in 1..2 |->
                         IF t > 0 THEN FMul(FSqrt(var.val), randn[i][k]) ELSE 0]]
    IN  [val |-> [i \in 1..Len(sample) |->
                    [k \in 1..2 |-> pred_prev_sample.val[i][k] + variance[i][k]]],
         reads |-> [i \in 1..Len(sample) |->
                    (IF t = 0 THEN pred_original_sample.reads[i]
                     ELSE pred_original_sample.reads[i] \cup pred_prev_sample.reads[i])
                    \cup (IF t > 0 THEN var.reads ELSE {})],
         drew |-> t > 0]

\* randn is the value torch.randn_like returns if step draws it; drew tells
\* whether step drew it.
step(self, model_output, timestep, sample, randn) ==
    LET t == timestep
        pred_original_sample == reconstruct_x0(self, sample, <<t>>, model_output)
        pred_prev_sample == q_posterior(self, pred_original_sample.val, sample, <<t>>)
        var == get_variance(self, t)
        variance == [i \in 1..Len(sample) |->
                      [k \in 1..2 |->
                         IF t > 0 THEN FMul(FSqrt(var.val), randn[i][k]) ELSE 0]]
    IN  [val |-> [i \in 1..Len(sample) |->
                    [k \in 1..2 |-> pred_prev_sample.val[i][k] + variance[i][k]]],
         reads |-> [i \in 1..Len(sample) |->
                    pred_original_sample.reads[i] \cup pred_prev_sample.reads[i]
                    \cup (IF t > 0 THEN var.reads ELSE {})],
         drew |-> t > 0]

\* Variant: the adjustment is evaluated on the noisy sample.
add_noise_on_noisy(self, x_start, x_noise, timesteps) ==
    LET s1 == [i \in 1..Len(timesteps) |-> self.sqrt_alphas_cumprod[timesteps[i]]]
        s2 == [i \in 1..Len(timesteps) |->
                 self.sqrt_one_minus_alphas_cumprod[timesteps[i]]]
        grid_x == [i \in 1..Len(x_start) |->
                     [k \in 1..2 |-> FMul(Bc(s1, i), x_start[i][k])
                                     + FMul(Bc(s2, i), x_noise[i][k])]]
        noise_adjustment == get_grid_noise_adjustment(self, timesteps, grid_x)
    IN  [val |-> [i \in 1..Len(x_start) |->
                    [k \in 1..2 |->
                       FMul(Bc(s1, i), x_start[i][k])
                       + FMul(FMul(Bc(s2, i), x_noise[i][k]),
                              noise_adjustment.val[i])]],
         reads |-> [i \in 1..Len(x_start) |->
                    {<<"sqrt_alphas_cumprod", <<Bc(timesteps, i)>>>>,
                     <<"sqrt_one_minus_alphas_cumprod", <<Bc(timesteps, i)>>>>}
                    \cup noise_adjustment.reads[i]],
         grid_x |-> grid_x]

\* grid_x is the batch add_noise hands to get_grid_noise_adjustment.
add_noise(self, x_start, x_noise, timesteps) ==
    LET s1 == [i \in 1..Len(timesteps) |-> self.sqrt_alphas_cumprod[timesteps[i]]]
        s2 == [i \in 1..Len(timesteps) |->
                 self.sqrt_one_minus_alphas_cumprod[timesteps[i]]]
        grid_x == x_start
        noise_adjustment == get_grid_noise_adjustment(self, timesteps, grid_x)
    IN  [val |-> [i \in 1..Len(x_start) |->
                    [k \in 1..2 |->
                       FMul(Bc(s1, i), x_start[i][k])
                       + FMul(FMul(Bc(s2, i), x_noise[i][k]),
                              noise_adjustment.val[i])]],
         reads |-> [i \in 1..Len(x_start) |->
                    {<<"sqrt_alphas_cumprod", <<Bc(timesteps, i)>>>>,
                     <<"sqrt_one_minus_alphas_cumprod", <<Bc(timesteps, i)>>>>}
                    \cup noise_adjustment.reads[i]],
         grid_x |-> grid_x]

\* ----------------------------------------------------------- driver state
VARIABLES
    config,            \* parsed command line: num_timesteps, beta_schedule, learning_rate
    noise_scheduler,   \* the NoiseScheduler instance (all its attributes)
    pc,                \* position of the driver script
    global_step,       \* training steps done
    eval_count,        \* evaluation batches done
    batch, noise, timesteps, noisy, noise_adjustment,   \* locals of the loops
    t, residual, sample, it,                            \* locals of the sampling loop
    images,            \* all_results[dataset_name]["images"]
    call,              \* the most recent invocation of a scheduler method
    model_call,        \* the most recent invocation of the denoiser
    step_log,          \* the sampling loop's iterations so far
    arg, result        \* argument and result of the single-operation specifications

vars == <<config, noise_scheduler, pc, global_step, eval_count, batch, noise,
          timesteps, noisy, noise_adjustment, t, residual, sample, it, images,
          call, model_call, step_log, arg, result>>

coarse_grid_size == 5
fine_grid_size == 20

\* The dataset and the random sources, as cyclic pools a batch is a window of.
Dataset == << <<-FP, FP>>, <<0, 3000>>, <<15000, -20000>> >>
RandnPool == << <<FP, -5000>>, <<-12000, 7000>> >>
ModelOutputs == << <<0, 0>>, <<FP, -6000>> >>
LearningRates == {3, (12 * FP) \div 10}      \* 3e-4 (the default) and 1.2

Window(pool, k, n) == [i \in 1..n |-> pool[((k + i - 2) % Len(pool)) + 1]]
Windows(pool, n) == {Window(pool, k, n) : k \in 1..Len(pool)}

NoCall == [op |-> "none"]
NoModelCall == [x |-> <<>>, t |-> <<>>, noise_adjustment |-> <<>>]

Init ==
    /\ config \in [num_timesteps : 1..MaxT,
                   beta_schedule : {"linear", "quadratic"},
                   learning_rate : LearningRates]
    /\ noise_scheduler = NewScheduler(config.num_timesteps, config.beta_schedule,
                                      coarse_grid_size, fine_grid_size)
    /\ pc = "train_add_noise"
    /\ global_step = 0
    /\ eval_count = 0
    /\ batch = <<>> /\ noise = <<>> /\ timesteps = <<>> /\ noisy = <<>>
    /\ noise_adjustment = <<>>
    /\ t = <<>> /\ residual = <<>> /\ sample = <<>> /\ it = 0
    /\ images = <<>>
    /\ call = NoCall
    /\ model_call = NoModelCall
    /\ step_log = <<>>
    /\ arg = <<>> /\ result = <<>>

\* torch.randint(0, num_timesteps, (n,)): the draws k, k+1, ... modulo
\* num_timesteps, for every k
RandInt(n) ==
    {[i \in 1..n |-> (k + i - 1) % noise_scheduler.num_timesteps] :
        k \in 0..(noise_scheduler.num_timesteps - 1)}

\* len(dataloader): batches of an epoch, the last one possibly short
NumBatches == (Len(Dataset) + BatchSize - 1) \div BatchSize

\* lines 252-258: draw a batch, noise and timesteps; noisy = add_noise(...)
TrainAddNoise ==
    /\ pc = "train_add_noise"
    /\ global_step < NumTrainSteps
    /\ \E b \in Windows(Dataset, BatchSize), n \in Windows(RandnPool, BatchSize),
          ts \in RandInt(BatchSize) :
          LET r == add_noise(noise_scheduler, b, n, ts)
          IN  /\ batch' = b /\ noise' = n /\ timesteps' = ts
              /\ noisy' = r.val
              /\ call' = [op |-> "add_noise", t |-> ts, x |-> b, aux |-> n,
                          grid_x |-> r.grid_x, reads |-> r.reads,
                          drew |-> FALSE, out |-> r.val]
    /\ pc' = "train_adjust"
    /\ UNCHANGED <<config, noise_scheduler, global_step, eval_count,
                   noise_adjustment, t, residual, sample, it, images, model_call,
                   step_log, arg, result>>

\* line 259
TrainGridAdjust ==
    /\ pc = "train_adjust"
    /\ LET r == get_grid_noise_adjustment(noise_scheduler, timesteps, batch)
       IN  /\ noise_adjustment' = r.val
           /\ call' = [op |-> "get_grid_noise_adjustment", t |-> timesteps,
                       x |-> batch, aux |-> <<>>, grid_x |-> batch,
                       reads |-> r.reads, drew |-> FALSE, out |-> r.val]
    /\ pc' = "train_optimize"
    /\ UNCHANGED <<config, noise_scheduler, global_step, eval_count, batch, noise,
                   timesteps, noisy, t, residual, sample, it, images, model_call,
                   step_log, arg, result>>

\* The cells of a grid the loss has a gradient through: those the batch read.
GatheredCells(name) ==
    {r[2] : r \in {q \in UNION {call.reads[i] : i \in 1..Len(call.reads)} :
                     q[1] = name}}

\* optimizer.step() on a grid: every entry the batch read moves by the learning
\* rate against the sign of the gradient (Adam's normalised update). The
\* decoupled weight decay, which only scales entries toward zero, is left out,
\* and one step moves the entries of both grids in the same direction.
AdamW(grid, cells, sign) ==
    Tensor(grid.shape, grid.fill,
           [c \in DOMAIN grid.at \cup cells |->
               IF c \in cells THEN At(grid, c) - sign * config.learning_rate
               ELSE grid.at[c]])

\* lines 260-277: denoiser forward pass, loss, backward pass, gradient clipping,
\* optimizer step, global_step += 1
TrainOptimize ==
    /\ pc = "train_optimize"
    /\ model_call' = [x |-> noisy, t |-> timesteps,
                      noise_adjustment |-> noise_adjustment]
    /\ LET cc == GatheredCells("coarse_noise_grid")
           fc == GatheredCells("fine_noise_grid")
       IN  \E sign \in {-1, 1} :
              noise_scheduler' =
                  [noise_scheduler EXCEPT
                     !.coarse_noise_grid = AdamW(@, cc, sign),
                     !.fine_noise_grid = AdamW(@, fc, sign)]
    /\ global_step' = global_step + 1
    /\ pc' = IF global_step + 1 < NumTrainSteps THEN "train_add_noise"
             ELSE "eval_add_noise"
    /\ batch' = <<>> /\ noise' = <<>> /\ timesteps' = <<>> /\ noisy' = <<>>
    /\ noise_adjustment' = <<>>
    /\ call' = NoCall
    /\ UNCHANGED <<config, eval_count, t, residual, sample, it, images, step_log,
                   arg, result>>

\* Variant: the evaluation's add_noise clamps the fine grid in place.
EvalAddNoise_writes_grid ==
    /\ pc = "eval_add_noise"
    /\ eval_count < NumBatches
    /\ \E b \in Windows(Dataset, BatchSize), n \in Windows(RandnPool, BatchSize),
          ts \in RandInt(BatchSize) :
          LET r == add_noise(noise_scheduler, b, n, ts)
          IN  /\ batch' = b /\ noise' = n /\ timesteps' = ts
              /\ noisy' = r.val
              /\ call' = [op |-> "add_noise", t |-> ts, x |-> b, aux |-> n,
                          grid_x |-> r.grid_x, reads |-> r.reads,
                          drew |-> FALSE, out |-> r.val]
    /\ noise_scheduler' =
           [noise_scheduler EXCEPT
              !.fine_noise_grid =
                  Tensor(@.shape, Max(@.fill, 0),
                         [c \in DOMAIN @.at |-> Max(@.at[c], 0)])]
    /\ pc' = "eval_adjust"
    /\ UNCHANGED <<config, global_step, eval_count,
                   noise_adjustment, t, residual, sample, it, images, model_call,
                   step_log, arg, result>>

\* lines 293-298
EvalAddNoise ==
    /\ pc = "eval_add_noise"
    /\ eval_count < NumBatches
    /\ \E b \in Windows(Dataset, BatchSize), n \in Windows(RandnPool, BatchSize),
          ts \in RandInt(BatchSize) :
          LET r == add_noise(noise_scheduler, b, n, ts)
          IN  /\ batch' = b /\ noise' = n /\ timesteps' = ts
              /\ noisy' = r.val
              /\ call' = [op |-> "add_noise", t |-> ts, x |-> b, aux |-> n,
                          grid_x |-> r.grid_x, reads |-> r.reads,
                          drew |-> FALSE, out |-> r.val]
    /\ pc' = "eval_adjust"
    /\ UNCHANGED <<config, noise_scheduler, global_step, eval_count,
                   noise_adjustment, t, residual, sample, it, images, model_call,
                   step_log, arg, result>>

\* lines 299-302
EvalGridAdjust ==
    /\ pc = "eval_adjust"
    /\ LET r == get_grid_noise_adjustment(noise_scheduler, timesteps, batch)
       IN  /\ model_call' = [x |-> noisy, t |-> timesteps,
                             noise_adjustment |-> r.val]
           /\ call' = [op |-> "get_grid_noise_adjustment", t |-> timesteps,
                       x |-> batch, aux |-> <<>>, grid_x |-> batch,
                       reads |-> r.reads, drew |-> FALSE, out |-> r.val]
    /\ eval_count' = eval_count + 1
    /\ pc' = IF eval_count + 1 < NumBatches THEN "eval_add_noise"
             ELSE "sample_init"
    /\ batch' = <<>> /\ noise' = <<>> /\ timesteps' = <<>> /\ noisy' = <<>>
    /\ UNCHANGED <<config, noise_scheduler, global_step, noise_adjustment, t,
                   residual, sample, it, images, step_log, arg, result>>

\* Variant: the list is not reversed.
ReversedRange_ascending(n) == [i \in 1..n |-> i - 1]

\* list(range(len(noise_scheduler)))[::-1]
ReversedRange(n) == [i \in 1..n |-> n - i]

\* lines 306-309
SampleInit ==
    /\ pc = "sample_init"
    /\ sample' \in Windows(RandnPool, BatchSize)
    /\ timesteps' = ReversedRange(noise_scheduler.num_timesteps)
    /\ it' = 0
    /\ call' = NoCall
    /\ model_call' = NoModelCall
    /\ pc' = "sample_adjust"
    /\ UNCHANGED <<config, noise_scheduler, global_step, eval_count, batch, noise,
                   noisy, noise_adjustment, t, residual, images, step_log, arg,
                   result>>

\* lines 310-314: next t of the list, grid adjustment, denoiser
SampleAdjust ==
    /\ pc = "sample_adjust"
    /\ it < Len(timesteps)
    /\ LET tt == [i \in 1..BatchSize |-> timesteps[it + 1]]
           r == get_grid_noise_adjustment(noise_scheduler, tt, sample)
       IN  /\ t' = tt
           /\ noise_adjustment' = r.val
           /\ call' = [op |-> "get_grid_noise_adjustment", t |-> tt, x |-> sample,
                       aux |-> <<>>, grid_x |-> sample, reads |-> r.reads,
                       drew |-> FALSE, out |-> r.val]
           /\ model_call' = [x |-> sample, t |-> tt, noise_adjustment |-> r.val]
    /\ residual' \in Windows(ModelOutputs, BatchSize)
    /\ it' = it + 1
    /\ pc' = "sample_step"
    /\ UNCHANGED <<config, noise_scheduler, global_step, eval_count, batch, noise,
                   timesteps, noisy, sample, images, step_log, arg, result>>

\* line 315
SampleStep ==
    /\ pc = "sample_step"
    /\ \E z \in Windows(RandnPool, BatchSize) :
          LET r == step(noise_scheduler, residual, t[1], sample, z)
          IN  /\ sample' = r.val
              /\ call' = [op |-> "step", t |-> <<t[1]>>, x |-> sample,
                          aux |-> residual, grid_x |-> <<>>, reads |-> r.reads,
                          drew |-> r.drew, out |-> r.val]
              /\ step_log' = Append(step_log,
                     [t_grid |-> call.t, x_grid |-> call.x,
                      t_model |-> model_call.t, x_model |-> model_call.x,
                      t_step |-> t[1], x_step |-> sample,
                      model_output |-> residual,
                      randn |-> IF r.drew THEN z ELSE <<>>,
                      out |-> r.val])
    /\ pc' = IF it < Len(timesteps) THEN "sample_adjust" ELSE "sample_end"
    /\ UNCHANGED <<config, noise_scheduler, global_step, eval_count, batch, noise,
                   timesteps, noisy, noise_adjustment, t, residual, it, images,
                   model_call, arg, result>>

\* lines 316, 339-342
SampleEnd ==
    /\ pc = "sample_end"
    /\ images' = sample
    /\ pc' = "done"
    /\ UNCHANGED <<config, noise_scheduler, global_step, eval_count, batch, noise,
                   timesteps, noisy, noise_adjustment, t, residual, sample, it,
                   call, model_call, step_log, arg, result>>

Next ==
    \/ TrainAddNoise
    \/ TrainGridAdjust
    \/ TrainOptimize
    \/ EvalAddNoise
    \/ EvalGridAdjust
    \/ SampleInit
    \/ SampleAdjust
    \/ SampleStep
    \/ SampleEnd

Spec == Init /\ [][Next]_vars

\* ------------------------------------------- single-operation specifications
\* The driver's variables while no driver runs.
NoDriver ==
    /\ config = <<>>
    /\ global_step = 0 /\ eval_count = 0
    /\ batch = <<>> /\ noise = <<>> /\ timesteps = <<>> /\ noisy = <<>>
    /\ noise_adjustment = <<>>
    /\ t = <<>> /\ residual = <<>> /\ sample = <<>> /\ it = 0
    /\ images = <<>>
    /\ call = NoCall
    /\ model_call = NoModelCall
    /\ step_log = <<>>

driverVars == <<config, global_step, eval_count, batch, noise, timesteps, noisy,
                noise_adjustment, t, residual, sample, it, images, call,
                model_call, step_log>>

\* NoiseScheduler(num_timesteps, beta_schedule=..., coarse_grid_size, fine_grid_size)
\* for arbitrary arguments.  The only check of __init__ is the one on
\* beta_schedule (ValueError); torch.linspace rejects a negative number of
\* steps and torch.ones a negative dimension (RuntimeError); zero is accepted
\* by both.
CtorArgs ==
    [num_timesteps : -1..MaxArg,
     beta_schedule : {"linear", "quadratic", "cosine"},
     coarse_grid_size : -1..MaxArg,
     fine_grid_size : -1..MaxArg]

InitCtor ==
    /\ NoDriver
    /\ noise_scheduler = <<>>
    /\ pc = "ctor"
    /\ arg \in CtorArgs
    /\ result = <<>>

Construct ==
    /\ pc = "ctor"
    /\ pc' = "ctor_done"
    /\ IF arg.beta_schedule \notin {"linear", "quadratic"}
       THEN /\ result' = "ValueError"
            /\ UNCHANGED noise_scheduler
       ELSE IF arg.num_timesteps < 0
       THEN /\ result' = "RuntimeError"
            /\ UNCHANGED noise_scheduler
       ELSE IF arg.coarse_grid_size < 0 \/ arg.fine_grid_size < 0
       THEN /\ result' = "RuntimeError"
            /\ UNCHANGED noise_scheduler
       ELSE /\ result' = "ok"
            /\ noise_scheduler' =
                   NewScheduler(arg.num_timesteps, arg.beta_schedule,
                                arg.coarse_grid_size, arg.fine_grid_size)
    /\ UNCHANGED <<arg, driverVars>>

NextCtor == Construct

SpecCtor == InitCtor /\ [][NextCtor]_vars

\* The index mapping of get_grid_noise_adjustment on one coordinate.
Coords == {(k * FP) \div 4 : k \in (-MaxCoord)..MaxCoord}

InitIndex ==
    /\ NoDriver
    /\ noise_scheduler = <<>>
    /\ pc = "index"
    /\ arg \in [c : Coords, G : 1..MaxIndexGrid]
    /\ result = <<>>

ApplyGridIndex ==
    /\ pc = "index"
    /\ pc' = "index_done"
    /\ result' = grid_index(arg.c, arg.G)
    /\ UNCHANGED <<arg, noise_scheduler, driverVars>>

NextIndex == ApplyGridIndex

SpecIndex == InitIndex /\ [][NextIndex]_vars

\* ------------------------------------------------------------ properties
T == noise_scheduler.num_timesteps
Last(s) == s[Len(s)]
GridNames == {"coarse_noise_grid", "fine_noise_grid"}

\* C1: for every grid size G >= 1 and every coordinate c, inside or outside
\* [-1, 1], the cell index lies in 0..G-1; it is 0 for c = -1 and G-1 for
\* c >= 1.
C1_IndexInRange ==
    pc = "index_done" =>
        /\ result \in 0..(arg.G - 1)
        /\ (arg.c = -FP => result = 0)
        /\ (arg.c >= FP => result = arg.G - 1)

\* a coordinate above 1 on a grid of several cells was mapped to the last cell
C1_Witness ==
    /\ pc = "index_done"
    /\ arg.c > FP
    /\ arg.G > 1
    /\ result = arg.G - 1

\* C2 (as claimed): the constructor fails with the configuration error and
\* builds no instance exactly if beta_schedule is unknown or the timestep
\* count or a grid size is not positive; otherwise it succeeds.
C2_InvalidConfigRejected ==
    pc = "ctor_done" =>
        LET invalid == \/ arg.beta_schedule \notin {"linear", "quadratic"}
                       \/ arg.num_timesteps <= 0
                       \/ arg.coarse_grid_size <= 0
                       \/ arg.fine_grid_size <= 0
        IN  IF invalid
            THEN result = "ValueError" /\ noise_scheduler = <<>>
            ELSE result = "ok" /\ noise_scheduler # <<>>

\* C3: the sampling loop calls step once per timestep in the order T-1, ..., 0,
\* each call on the sample the previous call returned; after the call with
\* t = 0 the loop is over and that call's result is the generated output.
C3_StrictDescent ==
    /\ Len(step_log) <= T
    /\ \A k \in 1..Len(step_log) : step_log[k].t_step = T - k
    /\ \A k \in 2..Len(step_log) : step_log[k].x_step = step_log[k - 1].out
    /\ (Len(step_log) > 0 /\ Last(step_log).t_step = 0)
           <=> pc \in {"sample_end", "done"}
    /\ pc = "done" => images = Last(step_log).out

\* a run of T = MaxT steps that has delivered its output
C3_Witness ==
    /\ pc = "done"
    /\ T > 1
    /\ Len(step_log) = T
    /\ images = step_log[T].out

\* C4: step draws and adds sqrt(variance(t)) * noise exactly if t > 0; at
\* t = 0 the variance is 0, nothing is drawn and the result is
\* q_posterior(reconstruct_x0(x_t, 0, model_output), x_t, 0).
C4_NoiseIffPositiveT ==
    call.op = "step" =>
        LET tt == call.t[1]
            x0 == reconstruct_x0(noise_scheduler, call.x, <<tt>>, call.aux).val
            mu == q_posterior(noise_scheduler, x0, call.x, <<tt>>).val
            z  == Last(step_log).randn
        IN  /\ call.drew <=> tt > 0
            /\ (z # <<>>) <=> tt > 0
            /\ get_variance(noise_scheduler, 0).val = 0
            /\ tt = 0 => call.out = mu
            /\ tt > 0 =>
                 \A i \in 1..Len(call.x), k \in 1..2 :
                    call.out[i][k] = mu[i][k]
                       + FMul(FSqrt(get_variance(noise_scheduler, tt).val), z[i][k])

\* the terminal step of a run whose first step added visible noise
C4_Witness ==
    /\ call.op = "step"
    /\ call.t = <<0>>
    /\ Len(step_log) = 2
    /\ step_log[1].randn # <<>>
    /\ step_log[1].out #
          q_posterior(noise_scheduler,
              reconstruct_x0(noise_scheduler, step_log[1].x_step, <<1>>,
                             step_log[1].model_output).val,
              step_log[1].x_step, <<1>>).val

\* C5: add_noise, step and get_grid_noise_adjustment leave both grids and the
\* coefficient tables unchanged; a grid entry changes only in the optimizer
\* update, which is no scheduler invocation, and the tables never change.
C5_GridsOnlyByOptimizer ==
    [][ /\ (noise_scheduler' # noise_scheduler) =>
              /\ pc = "train_optimize"
              /\ call' = NoCall
              /\ \A f \in DOMAIN noise_scheduler \ GridNames :
                    noise_scheduler'[f] = noise_scheduler[f]
        /\ (call' # NoCall) => noise_scheduler' = noise_scheduler ]_vars

\* a scheduler method was invoked on grids an optimizer update had changed
C5_Witness ==
    /\ call.op \in {"add_noise", "step"}
    /\ global_step > 0
    /\ Values(noise_scheduler.coarse_noise_grid) # {FP}
    /\ Values(noise_scheduler.fine_noise_grid) # {FP}

\* C6: in add_noise every table entry element i reads (coefficients, coarse
\* grid, fine grid) is indexed by timesteps[i]; in a sampling iteration the t
\* given to get_grid_noise_adjustment, to the denoiser and to step is the same.
C6_SameTimestepIndex ==
    /\ call.op = "add_noise" =>
          \A i \in 1..Len(call.x) :
             /\ \A r \in call.reads[i] : r[2][1] = call.t[i]
             /\ {r[1] : r \in call.reads[i]} =
                   {"sqrt_alphas_cumprod", "sqrt_one_minus_alphas_cumprod",
                    "coarse_noise_grid", "fine_noise_grid"}
    /\ \A k \in 1..Len(step_log) :
          \A i \in 1..BatchSize :
             /\ step_log[k].t_grid[i] = step_log[k].t_step
             /\ step_log[k].t_model[i] = step_log[k].t_step

\* add_noise on a batch whose first two elements have different timesteps
C6_Witness ==
    /\ call.op = "add_noise"
    /\ Len(call.t) >= 2
    /\ call.t[1] # call.t[2]

\* C7: before the first optimizer update get_grid_noise_adjustment is 1 for
\* every timestep and every point, also outside [-1, 1]^2, and add_noise
\* returns s1 * x0 + s2 * noise.
C7_FreshGridIsNeutral ==
    (pc \notin {"ctor", "ctor_done", "index", "index_done"} /\ global_step = 0) =>
        /\ \A tt \in 0..(T - 1), c1 \in Coords, c2 \in Coords :
              get_grid_noise_adjustment(noise_scheduler, <<tt>>, << <<c1, c2>> >>).val
                 = <<FP>>
        /\ call.op = "add_noise" =>
              \A i \in 1..Len(call.x), k \in 1..2 :
                 call.out[i][k] =
                    FMul(noise_scheduler.sqrt_alphas_cumprod[call.t[i]], call.x[i][k])
                    + FMul(noise_scheduler.sqrt_one_minus_alphas_cumprod[call.t[i]],
                           call.aux[i][k])

\* add_noise before any update on a batch with a point outside [-1, 1]^2
C7_Witness ==
    /\ global_step = 0
    /\ call.op = "add_noise"
    /\ \E i \in 1..Len(call.x) : Abs(call.x[i][1]) > FP /\ call.aux[i][1] # 0

\* C8: add_noise evaluates the adjustment on the clean batch x_start; every
\* sampling iteration evaluates it on the current sample, which is the initial
\* Gaussian sample in the first iteration and the previous step's output after
\* that, and hands the same sample to the denoiser and to step.
C8_ForwardCleanReverseEvolving ==
    /\ call.op = "add_noise" =>
          /\ call.grid_x = call.x
          /\ \A i \in 1..Len(call.x) :
                {r \in call.reads[i] : r[1] \in GridNames} =
                   {<<"coarse_noise_grid",
                      coarse_cell(noise_scheduler, call.t[i], call.x[i])>>,
                    <<"fine_noise_grid",
                      fine_cell(noise_scheduler, call.t[i], call.x[i])>>}
    /\ \A k \in 1..Len(step_log) :
          /\ step_log[k].x_grid = step_log[k].x_step
          /\ step_log[k].x_model = step_log[k].x_step
          /\ k = 1 => step_log[k].x_grid \in Windows(RandnPool, BatchSize)
          /\ k > 1 => step_log[k].x_grid = step_log[k - 1].out

\* add_noise whose noisy result lies in another fine cell than its clean input
C8_Witness ==
    /\ call.op = "add_noise"
    /\ \E i \in 1..Len(call.x) :
          fine_cell(noise_scheduler, call.t[i], call.out[i])
             # fine_cell(noise_scheduler, call.t[i], call.x[i])

\* C9 (as claimed): every entry of both grids is >= 0 in every reachable state.
C9_GridsNonNegative ==
    pc \notin {"ctor", "ctor_done", "index", "index_done"} =>
        /\ \A v \in Values(noise_scheduler.coarse_noise_grid) : v >= 0
        /\ \A v \in Values(noise_scheduler.fine_noise_grid) : v >= 0

\* C10 (as claimed): the terminal step reads neither posterior_mean_coef1[0]
\* nor posterior_mean_coef2[0].
C10_TerminalStepSkipsCoefs ==
    (call.op = "step" /\ call.t = <<0>>) =>
        \A i \in 1..Len(call.reads) :
           /\ <<"posterior_mean_coef1", <<0>>>> \notin call.reads[i]
           /\ <<"posterior_mean_coef2", <<0>>>> \notin call.reads[i]

\* C10 (amended): posterior_mean_coef1[0] and posterior_mean_coef2[0] are
\* defined and the terminal step reads both (through q_posterior); what it
\* does not read are the tables of the variance.
C10_TerminalStepReadsCoefs ==
    /\ pc \notin {"ctor", "ctor_done", "index", "index_done"} =>
          /\ 0 \in DOMAIN noise_scheduler.posterior_mean_coef1
          /\ 0 \in DOMAIN noise_scheduler.posterior_mean_coef2
    /\ (call.op = "step" /\ call.t = <<0>>) =>
          \A i \in 1..Len(call.reads) :
             call.reads[i] =
                {<<"sqrt_inv_alphas_cumprod", <<0>>>>,
                 <<"sqrt_inv_alphas_cumprod_minus_one", <<0>>>>,
                 <<"posterior_mean_coef1", <<0>>>>,
                 <<"posterior_mean_coef2", <<0>>>>}

\* the terminal step of a run of more than one timestep
C10_Witness ==
    /\ call.op = "step"
    /\ call.t = <<0>>
    /\ T > 1
    /\ Len(call.reads) = BatchSize

====
